---- MODULE Spec2Model ----
(***************************************************************************)
(* Model of src/ratings_validation.py: the chunked stage-then-merge upsert *)
(* (upsert_data), the rule pipeline (apply_validations), the per-file      *)
(* driver (process_file) and the batch loop (main).                        *)
(*                                                                         *)
(* Two specifications are given.  Spec is the whole run of main() on a     *)
(* batch of files.  SpecUpsert runs upsert_data twice in succession on an  *)
(* arbitrary dataset against an arbitrary target table.                    *)
(***************************************************************************)
EXTENDS Integers, Sequences, FiniteSets, TLC

VARIABLES
    pc,                 \* position of the thread of control
    db,                 \* relational store: ratings_stage, ratings_missing, temp_table, ratings_files
    up,                 \* frame of the upsert_data call in progress
    twice,              \* SpecUpsert only: which of the two calls runs, table after the first
    files_to_process,   \* main(): the batch, a sequence of file names
    idx,                \* main(): index of the file being processed
    rules,              \* names bound in globals() by load_validation_functions
    raising,            \* the loaded callables that raise when applied
    df,                 \* process_file: the dataset in memory
    issues,             \* apply_validations: the issue list
    total_stats,        \* main(): passed / failed / skipped lists
    s3,                 \* object store: the objects put so far
    inferred_sources,   \* module-level audit map
    review_count_fixes, \* module-level audit map
    log                 \* history: upsert_data calls and committed chunks, per file

vars == <<pc, db, up, twice, files_to_process, idx, rules, raising, df, issues,
          total_stats, s3, inferred_sources, review_count_fixes, log>>

----------------------------------------------------------------------------
(* Bounds of the model *)

\* rows per dataset handed to upsert_data in SpecUpsert
MaxLen == 3
\* chunk_size of upsert_data (10000 in the source), scaled so that a dataset spans chunks
chunk_size == 2
\* files per batch in Spec
MaxFiles == 2

----------------------------------------------------------------------------
(* Datasets *)

\* a null cell (NaN in pandas, NULL in MySQL)
NULL == -1

fillna0(v) == IF v = NULL THEN 0 ELSE v

unique_keys == {"source", "product_id", "scraped_week", "scraped_year"}

star_cols == {"count_5star", "count_4star", "count_3star", "count_2star", "count_1star"}

all_cols == unique_keys \cup star_cols \cup {"review_count", "count_overall"}

Row(src, p, w, st, rc, co) ==
    [source |-> src, product_id |-> p, scraped_week |-> w, scraped_year |-> "2025",
     count_5star |-> st[1], count_4star |-> st[2], count_3star |-> st[3],
     count_2star |-> st[4], count_1star |-> st[5],
     review_count |-> rc, count_overall |-> co]

Restrict(r, cols) == [c \in cols |-> r[c]]

Key(r) == Restrict(r, unique_keys)

Min(a, b) == IF a < b THEN a ELSE b

SeqsUpTo(S, n) == UNION {[1..k -> S] : k \in 0..n}

Range(s) == {s[i] : i \in 1..Len(s)}

----------------------------------------------------------------------------
(* upsert_data *)

update_cols(columns) == columns \ unique_keys

upsert_query_ignore(columns) == "INSERT IGNORE"

upsert_query_plain(columns) ==
    IF update_cols(columns) # {} THEN "ON DUPLICATE KEY UPDATE" ELSE "INSERT"

upsert_query_insert(columns) == "INSERT"

upsert_query(columns) ==
    IF update_cols(columns) # {} THEN "ON DUPLICATE KEY UPDATE" ELSE "INSERT IGNORE"

\* ON DUPLICATE KEY UPDATE `c`=`c`+VALUES(`c`): accumulates instead of overwriting
on_duplicate_add(t, r, columns) ==
    [c \in DOMAIN t |->
        IF c = "count_overall" THEN fillna0(t[c]) + fillna0(r[c])
        ELSE IF c \in update_cols(columns) THEN r[c] ELSE t[c]]

\* ON DUPLICATE KEY UPDATE `c`=VALUES(`c`) for every c of update_cols
on_duplicate(t, r, columns) ==
    [c \in DOMAIN t |-> IF c \in update_cols(columns) THEN r[c] ELSE t[c]]

\* One row of INSERT ... SELECT against a table whose unique index is unique_keys.
insert_row(tbl, r, columns, query) ==
    LET hit == {t \in tbl : Key(t) = Key(r)}
    IN  IF hit = {} THEN [table |-> tbl \cup {r}, error |-> FALSE]
        ELSE IF query = "ON DUPLICATE KEY UPDATE"
             THEN [table |-> (tbl \ hit) \cup {on_duplicate(t, r, columns) : t \in hit},
                   error |-> FALSE]
        ELSE IF query = "INSERT IGNORE" THEN [table |-> tbl, error |-> FALSE]
        ELSE [table |-> tbl, error |-> TRUE]

\* conn.execute(text(upsert_query)): the staged rows in temp_table order, stopping
\* at the first row the store rejects.
RECURSIVE execute(_, _, _, _)
execute(tbl, staged, columns, query) ==
    IF staged = <<>> THEN [table |-> tbl, error |-> FALSE]
    ELSE LET one == insert_row(tbl, Head(staged), columns, query)
         IN  IF one.error THEN one
             ELSE execute(one.table, Tail(staged), columns, query)

\* df.iloc[i:i + chunk_size], i counted from 0
chunk(rows, i) == SubSeq(rows, i + 1, Min(i + chunk_size, Len(rows)))

\* leaving `with engine.begin()` by an exception, autocommit style: keeps what was written
rollback_none(before, partial) == partial

\* leaving `with engine.begin()` by an exception: the transaction is rolled back
rollback(before, partial) == before

NoCall ==
    [status |-> "idle", table |-> "ratings_stage", columns |-> {}, rows |-> <<>>,
     i |-> 0, before |-> {}, error |-> "", file |-> ""]

\* entering upsert_data(df, table_name, unique_keys): range(0, len(df), chunk_size)
upsert_data(rows, columns, table_name, file_name) ==
    [status |-> IF Len(rows) = 0 THEN "returned" ELSE "running",
     table |-> table_name, columns |-> columns, rows |-> rows, i |-> 0,
     before |-> db[table_name], error |-> "", file |-> file_name]

CallEvent(file_name, table_name) ==
    [ev |-> "call", file |-> file_name, table |-> table_name, at |-> 0]

CommitEvent(file_name, table_name, i) ==
    [ev |-> "commit", file |-> file_name, table |-> table_name, at |-> i]

PipelineVars ==
    <<files_to_process, idx, rules, raising, df, issues, total_stats, s3,
      inferred_sources, review_count_fixes>>

\* one iteration of the chunk loop that commits
UpsertChunkCommit ==
    /\ up.status = "running"
    /\ LET staged == chunk(up.rows, up.i)
           res == execute(db[up.table], staged, up.columns, upsert_query(up.columns))
           next == up.i + chunk_size
       IN  /\ ~res.error
           /\ db' = [db EXCEPT ![up.table] = res.table, !.temp_table = staged]
           /\ up' = [up EXCEPT !.i = next,
                               !.status = IF next >= Len(up.rows) THEN "returned"
                                          ELSE "running"]
           /\ log' = Append(log, CommitEvent(up.file, up.table, up.i))
    /\ UNCHANGED <<pc, twice, PipelineVars>>

\* one iteration of the chunk loop that raises: the store fails while the chunk is
\* staged or after j of its rows were merged, or the store rejects a row
UpsertChunkFail ==
    /\ up.status = "running"
    /\ LET staged == chunk(up.rows, up.i)
           q == upsert_query(up.columns)
           res == execute(db[up.table], staged, up.columns, q)
       IN  \E j \in 0..Len(staged) :
             LET part == execute(db[up.table], SubSeq(staged, 1, j), up.columns, q)
             IN  /\ ~part.error
                 /\ db' = [db EXCEPT ![up.table] = rollback(db[up.table], part.table),
                                     !.temp_table = <<>>]
                 /\ up' = [up EXCEPT !.status = "raised",
                                     !.error = IF res.error THEN "IntegrityError"
                                               ELSE "OperationalError"]
    /\ UNCHANGED <<pc, twice, PipelineVars, log>>

----------------------------------------------------------------------------
(* SpecUpsert: upsert_data(D, T, K); upsert_data(D, T, K) *)

ProductIds == {"p1", "p2", "p3"}

Zero5 == <<0, 0, 0, 0, 0>>
Some5 == <<0, 2, 0, 0, 1>>

\* rows over all columns: three keys, two different contents per key
FullRows ==
    {Row("brandx", p, "05", Some5, 0, 5) : p \in ProductIds}
    \cup {Row("brandx", p, "05", Zero5, 37, 37) : p \in ProductIds}

KeyRows == {Key(r) : r \in FullRows}

UniqueByKey(tbl) == \A a, b \in tbl : Key(a) = Key(b) => a = b

Tables(S) == {T \in SUBSET S : UniqueByKey(T)}

EmptyDb ==
    [ratings_stage |-> {}, ratings_missing |-> {}, temp_table |-> <<>>,
     ratings_files |-> {}]

InitPipelineIdle ==
    /\ files_to_process = <<>>
    /\ idx = 0
    /\ rules = {}
    /\ raising = {}
    /\ df = [columns |-> {}, rows |-> <<>>]
    /\ issues = <<>>
    /\ total_stats = [passed |-> <<>>, failed |-> <<>>, skipped |-> <<>>]
    /\ s3 = {}
    /\ inferred_sources = {}
    /\ review_count_fixes = {}
    /\ log = <<>>

InitUpsert ==
    /\ pc = "upsert_twice"
    /\ InitPipelineIdle
    /\ \/ \E T \in Tables(FullRows), D \in SeqsUpTo(FullRows, MaxLen) :
            /\ db = [EmptyDb EXCEPT !.ratings_stage = T]
            /\ up = [upsert_data(D, all_cols, "ratings_stage", "") EXCEPT !.before = T]
       \/ \E T \in SUBSET KeyRows, D \in SeqsUpTo(KeyRows, MaxLen) :
            /\ db = [EmptyDb EXCEPT !.ratings_missing = T]
            /\ up = [upsert_data(D, unique_keys, "ratings_missing", "") EXCEPT !.before = T]
    /\ twice = [run |-> 1, first |-> up.before, after |-> {}]

\* the first call returned: call upsert_data again with the same arguments
UpsertAgain ==
    /\ pc = "upsert_twice"
    /\ twice.run = 1
    /\ up.status = "returned"
    /\ twice' = [twice EXCEPT !.run = 2, !.after = db[up.table]]
    /\ up' = upsert_data(up.rows, up.columns, up.table, up.file)
    /\ UNCHANGED <<pc, db, PipelineVars, log>>

NextUpsert == UpsertChunkCommit \/ UpsertChunkFail \/ UpsertAgain

SpecUpsert == InitUpsert /\ [][NextUpsert]_vars

----------------------------------------------------------------------------
(* Properties of upsert_data, checked under SpecUpsert *)

Keys(rows) == {Key(rows[i]) : i \in 1..Len(rows)}

\* the last staged row carrying the key of rows[i]
LastOf(rows, i) ==
    rows[CHOOSE j \in i..Len(rows) :
            /\ Key(rows[j]) = Key(rows[i])
            /\ \A k \in (j + 1)..Len(rows) : Key(rows[k]) # Key(rows[i])]

HasRepeatedKey(rows) ==
    \E i, j \in 1..Len(rows) : i < j /\ Key(rows[i]) = Key(rows[j]) /\ rows[i] # rows[j]

\* C1: running upsert_data(D, T, K) twice in succession leaves T exactly as one run
\* left it, for every dataset D (repeated keys, several chunks) and every table T.
C1_UpsertIdempotent ==
    (pc = "upsert_twice" /\ twice.run = 2 /\ up.status = "returned")
        => db[up.table] = twice.after

C1_Witness ==
    /\ pc = "upsert_twice" /\ twice.run = 2 /\ up.status = "returned"
    /\ Len(up.rows) > chunk_size
    /\ HasRepeatedKey(up.rows)
    /\ twice.after # twice.first
    /\ twice.first # {}

\* C2: with a column outside unique_keys, when upsert_data returns every staged key
\* has a target row whose non-key columns equal the last staged row of that key,
\* and every target row whose key is not staged is as it was before the call.
C2_MergeLastWriterWins ==
    (pc = "upsert_twice" /\ up.status = "returned" /\ update_cols(up.columns) # {})
        => /\ \A i \in 1..Len(up.rows) :
                \E t \in db[up.table] :
                    /\ Key(t) = Key(up.rows[i])
                    /\ \A c \in update_cols(up.columns) : t[c] = LastOf(up.rows, i)[c]
           /\ \A t \in up.before : Key(t) \notin Keys(up.rows) => t \in db[up.table]
           /\ \A t \in db[up.table] : Key(t) \in Keys(up.rows) \/ t \in up.before

C2_Witness ==
    /\ pc = "upsert_twice" /\ up.status = "returned" /\ twice.run = 1
    /\ update_cols(up.columns) # {}
    /\ HasRepeatedKey(up.rows)
    /\ \E t \in up.before : Key(t) \in Keys(up.rows) /\ t \notin db[up.table]
    /\ \E t \in up.before : Key(t) \notin Keys(up.rows)
    /\ \E k \in Keys(up.rows) : k \notin {Key(t) : t \in up.before}

\* C3: with no column outside unique_keys, upsert_data never changes or removes a
\* row the target already held, adds exactly the staged keys that were absent, and
\* never raises a key-conflict error.
C3_PureKeyInsertIgnore ==
    (pc = "upsert_twice" /\ up.status # "idle" /\ update_cols(up.columns) = {})
        => /\ up.before \subseteq db[up.table]
           /\ db[up.table] \subseteq up.before \cup Range(up.rows)
           /\ up.status = "returned" => db[up.table] = up.before \cup Range(up.rows)
           /\ up.error # "IntegrityError"

C3_Witness ==
    /\ pc = "upsert_twice" /\ up.status = "returned" /\ twice.run = 1
    /\ update_cols(up.columns) = {}
    /\ Range(up.rows) \cap up.before # {}
    /\ Range(up.rows) \ up.before # {}
    /\ up.before \ Range(up.rows) # {}

\* C4: in every state reached by upsert_data calls each target table holds at most
\* one row per (source, product_id, scraped_week, scraped_year), and no call fails
\* with a uniqueness-constraint violation.
C4_KeyUniqueness ==
    /\ UniqueByKey(db.ratings_stage)
    /\ UniqueByKey(db.ratings_missing)
    /\ up.error # "IntegrityError"

C4_Witness ==
    /\ pc = "upsert_twice" /\ twice.run = 2 /\ up.status = "returned"
    /\ HasRepeatedKey(up.rows)
    /\ \E t \in twice.first : Key(t) \in Keys(up.rows)
    /\ Cardinality(db[up.table]) > Cardinality(twice.first)

\* C5: when the store fails in the chunk that starts at row offset i, the target
\* holds exactly the effects of the chunks before it, and nothing of that chunk
\* or of a later one.
C5_ChunkAtomicity ==
    up.status = "raised"
        => db[up.table] =
             execute(up.before, SubSeq(up.rows, 1, up.i), up.columns,
                     upsert_query(up.columns)).table

C5_Witness ==
    /\ pc = "upsert_twice" /\ up.status = "raised"
    /\ up.i > 0
    /\ db[up.table] # up.before
    /\ execute(db[up.table], chunk(up.rows, up.i), up.columns,
               upsert_query(up.columns)).table # db[up.table]

----------------------------------------------------------------------------
(* The batch run: main, load_validation_functions, process_file, apply_validations *)

\* no file exempt from the split into ratings_stage and ratings_missing
skip_zero_check_none == {}

skip_zero_check == {"fancode_ratings", "nathabit_ratings"}
skip_entire_file == {"giva_ratings", "amazon_bestseller"}

FileNames == {"brandx_ratings_wk5.csv", "fancode_ratings_wk5.csv", "Giva_Ratings_wk5.csv"}

\* file_name.lower()
lower(name) == IF name = "Giva_Ratings_wk5.csv" THEN "giva_ratings_wk5.csv" ELSE name

\* x in s, for the lower-cased names and the list entries above
contains(s, x) ==
    <<s, x>> \in {<<"fancode_ratings_wk5.csv", "fancode_ratings">>,
                 <<"giva_ratings_wk5.csv", "giva_ratings">>}

\* any(x in file_name.lower() for x in list)
matches(name, list) == \E x \in list : contains(lower(name), x)

\* file_name.split("_ratings")[0]: the split is case-sensitive
inferred_source(name) ==
    IF name = "brandx_ratings_wk5.csv" THEN "brandx"
    ELSE IF name = "fancode_ratings_wk5.csv" THEN "fancode"
    ELSE name

\* main(): week "5" (or "05", "wk5") gives normalized_week "05" and week_folder "wk5/"
normalized_week == "05"
week_folder == "wk5/"

\* str(int(float(x))).zfill(2) if x.replace('.', '', 1).isdigit() else x
norm_week(x) ==
    IF x \in {"5", "5.0", "05"} THEN "05"
    ELSE IF x \in {"6", "6.0", "06"} THEN "06"
    ELSE x

NaN == "NaN"

\* the scraped_date of a row scraped in week w
date_of(w) == IF norm_week(w) = "05" THEN "2025-01-29" ELSE "2025-02-05"

RawRow(p, w, st, rc, co) ==
    [c \in all_cols \cup {"scraped_date"} |->
        IF c = "scraped_date" THEN date_of(w) ELSE Row("brandx", p, w, st, rc, co)[c]]

ZeroNull == <<NULL, 0, 0, NULL, 0>>
Other5 == <<4, 0, 0, 0, 0>>

file_cols == all_cols \cup {"scraped_date"}

\* what pd.read_csv can return
Datasets ==
    { [columns |-> file_cols,
       rows |-> <<RawRow("p1", "5", Some5, 0, 5), RawRow("p1", "5", Zero5, 37, 0),
                  RawRow("p2", "5.0", ZeroNull, NULL, 0)>>],
      [columns |-> file_cols,
       rows |-> <<RawRow("p1", "5", Some5, 0, 5), RawRow("p1", "5", Some5, 0, 5),
                  RawRow("p2", "5", Some5, 0, 5), RawRow("p1", "5", Other5, 0, 4)>>],
      [columns |-> file_cols,
       rows |-> <<RawRow("p1", "6", Some5, 0, 5)>>],
      [columns |-> file_cols,
       rows |-> <<RawRow("p1", "5", Some5, 0, 5), RawRow("p2", "6", Zero5, 0, 0)>>],
      [columns |-> file_cols \ {"source"},
       rows |-> <<Restrict(RawRow("p2", "5", Zero5, 37, 0), file_cols \ {"source"})>>] }

NoDf == [columns |-> {}, rows |-> <<>>]

SetCol(r, c, v) == [k \in DOMAIN r \cup {c} |-> IF k = c THEN v ELSE r[k]]

MapRows(rows, F(_)) == [i \in 1..Len(rows) |-> F(rows[i])]

Event(e, file_name, what, at) == [ev |-> e, file |-> file_name, table |-> what, at |-> at]

\* the number n of rows of a file read ("input"), dropped by remove_duplicates
\* ("removed") or handed to upsert_data for a table
RowsEvent(file_name, what, n) == Event("rows", file_name, what, n)

file_name == files_to_process[idx]

\* "source" not in df.columns or df["source"].isnull().all()
needs_source(d) ==
    \/ "source" \notin d.columns
    \/ \A i \in 1..Len(d.rows) : d.rows[i].source = NaN

infer_source(d, name) ==
    IF needs_source(d)
    THEN [columns |-> d.columns \cup {"source"},
          rows |-> MapRows(d.rows, LAMBDA r : SetCol(r, "source", inferred_source(name)))]
    ELSE d

\* the test made on count_5star alone
zero_star_mask_5star(r) == fillna0(r.count_5star) = 0

\* all five star counts are zero or null
zero_star_mask(r) == \A c \in star_cols : fillna0(r[c]) = 0

\* the mask without review_not_zero
condition_zero_stars(r) == zero_star_mask(r)

\* zero_star_mask & review_not_zero
condition(r) == zero_star_mask(r) /\ fillna0(r.review_count) > 0

fix_cols == star_cols \cup {"review_count", "count_overall"}

fix_count(d) ==
    IF fix_cols \subseteq d.columns
    THEN Cardinality({i \in 1..Len(d.rows) : condition(d.rows[i])})
    ELSE 0

\* df.loc[condition, 'count_overall'] = df.loc[condition, 'review_count']
fix_count_overall(d) ==
    IF fix_cols \subseteq d.columns
    THEN [d EXCEPT !.rows = MapRows(d.rows, LAMBDA r :
              IF condition(r) THEN [r EXCEPT !.count_overall = r.review_count] ELSE r)]
    ELSE d

\* dict assignment m[k] = v
DictSet(m, k, v) == {e \in m : e[1] # k} \cup {<<k, v>>}

\* df['scraped_week'] normalisation of lines 199-200
normalize_weeks(d) ==
    [d EXCEPT !.rows = MapRows(d.rows, LAMBDA r :
        [r EXCEPT !.scraped_week = norm_week(r.scraped_week)])]

unique_weeks(d) == {d.rows[i].scraped_week : i \in 1..Len(d.rows)}

week_mismatch_never(d) == FALSE

\* normalized_week not in unique_weeks
week_mismatch(d) == normalized_week \notin unique_weeks(d)

\* how the scraped_week column of a file read relates to the expected week
Disagreement(d) ==
    LET w == unique_weeks(normalize_weeks(d))
    IN  IF w \subseteq {normalized_week} THEN "none"
        ELSE IF normalized_week \in w THEN "some" ELSE "all"

StrReason(msg) == [type |-> "str", val |-> <<msg>>]
ListReason(iss) == [type |-> "list", val |-> iss]

\* the next file of the for loop in main(), the locals of process_file gone
NextFile ==
    /\ pc' = "loop"
    /\ idx' = idx + 1
    /\ df' = NoDf
    /\ issues' = <<>>

\* process_file without its except clause: the exception ends main()
Except_propagate(msg) ==
    /\ total_stats' = total_stats
    /\ pc' = "done"
    /\ idx' = idx
    /\ df' = NoDf
    /\ issues' = <<>>

\* except Exception as e: total_stats['failed'].append((basename, str(e)))
Except(msg) ==
    /\ total_stats' = [total_stats EXCEPT !.failed = Append(@, <<file_name, StrReason(msg)>>)]
    /\ NextFile

----------------------------------------------------------------------------
(* apply_validations: the callables of the rule bundle *)

AllRules ==
    {"clean_product_id", "standardize_date", "validate_scraped_week",
     "validate_rating_dependency", "clean_text", "remove_duplicates",
     "correct_count_overall", "report_zero_ratings"}

\* what exec(script_content, globals()) can bind
Bundles == {AllRules, AllRules \ {"validate_scraped_week"}, {}}

\* the callables of a bundle that may raise on a dataset: any of a full bundle but
\* validate_scraped_week, which raises by the dataset's weeks; a bundle that lacks
\* a rule is taken with callables that do not raise
MayRaise(bundle) ==
    IF bundle = AllRules THEN bundle \ {"validate_scraped_week"} ELSE {}

\* standardize_date(df, "scraped_date", "scraped_week", "scraped_year"): the week and
\* the year derived from the date
standardize_date(d) ==
    [d EXCEPT !.rows = MapRows(d.rows, LAMBDA r :
        [r EXCEPT !.scraped_week = IF r.scraped_date = "2025-01-29" THEN "05" ELSE "06",
                  !.scraped_year = "2025"])]

\* validate_scraped_week(df, expected_week) raises when a row is of another week
validate_scraped_week(d, expected_week) ==
    \E i \in 1..Len(d.rows) : d.rows[i].scraped_week # expected_week

\* remove_duplicates(df): the first of every group of equal rows is kept
RECURSIVE remove_duplicates(_)
remove_duplicates(rows) ==
    IF rows = <<>> THEN <<>>
    ELSE LET init == remove_duplicates(SubSeq(rows, 1, Len(rows) - 1))
             last == rows[Len(rows)]
         IN  IF last \in Range(init) THEN init ELSE Append(init, last)

\* whether the callable raises on this dataset
rule_raises(rule, d) ==
    IF rule = "validate_scraped_week" THEN validate_scraped_week(d, normalized_week)
    ELSE rule \in raising

\* the dataset a callable that does not raise leaves
rule_result(rule, d) ==
    IF rule = "standardize_date" THEN standardize_date(d)
    ELSE IF rule = "remove_duplicates" THEN [d EXCEPT !.rows = remove_duplicates(d.rows)]
    ELSE d

\* the text appended to issues, or raised, by the except clause of a rule
issue_text(rule) ==
    IF rule = "validate_rating_dependency" THEN "rating dependency violated"
    ELSE IF rule = "clean_product_id" THEN "clean_product_id failed"
    ELSE IF rule = "standardize_date" THEN "standardize_date failed"
    ELSE IF rule = "validate_scraped_week" THEN "validate_scraped_week failed"
    ELSE IF rule = "clean_text" THEN "clean_text failed"
    ELSE IF rule = "remove_duplicates" THEN "remove_duplicates failed"
    ELSE IF rule = "correct_count_overall" THEN "correct_count_overall failed"
    ELSE "report_zero_ratings failed"

on_rule_error_fatal(rule) ==
    IF rule \in {"validate_scraped_week", "validate_rating_dependency"}
    THEN "raise" ELSE "append"

\* every except clause re-raising
on_rule_error_raise(rule) == "raise"

\* the except clause of a rule: raise ValueError(...) or issues.append(...)
on_rule_error(rule) == IF rule = "validate_scraped_week" THEN "raise" ELSE "append"

OtherVars == <<db, up, twice, files_to_process, rules, raising, s3,
               inferred_sources, review_count_fixes>>

\* one try block of apply_validations
RuleStep(rule, here, next, applies) ==
    /\ pc = here
    /\ IF rule \in rules /\ applies
       THEN IF rule_raises(rule, df)
            THEN /\ log' = Append(log, Event("rule", file_name, rule, "raised"))
                 /\ IF on_rule_error(rule) = "raise"
                    THEN Except(issue_text(rule))
                    ELSE /\ issues' = Append(issues, issue_text(rule))
                         /\ pc' = next
                         /\ UNCHANGED <<df, idx, total_stats>>
            ELSE /\ log' = Append(log, Event("rule", file_name, rule, "ok"))
                            \o IF rule = "remove_duplicates"
                               THEN <<RowsEvent(file_name, "removed",
                                         Len(df.rows) - Len(rule_result(rule, df).rows))>>
                               ELSE <<>>
                 /\ df' = rule_result(rule, df)
                 /\ pc' = next
                 /\ UNCHANGED <<issues, idx, total_stats>>
       ELSE /\ pc' = next
            /\ UNCHANGED <<df, issues, idx, total_stats, log>>
    /\ UNCHANGED OtherVars

ApplyCleanProductId ==
    RuleStep("clean_product_id", "clean_product_id", "standardize_date",
             "product_id" \in df.columns)

ApplyStandardizeDate ==
    RuleStep("standardize_date", "standardize_date", "validate_scraped_week",
             "scraped_date" \in df.columns)

ApplyValidateScrapedWeek ==
    RuleStep("validate_scraped_week", "validate_scraped_week",
             "validate_rating_dependency", TRUE)

ApplyValidateRatingDependency ==
    RuleStep("validate_rating_dependency", "validate_rating_dependency", "clean_text", TRUE)

ApplyCleanText ==
    RuleStep("clean_text", "clean_text", "remove_duplicates",
             {"brand", "brand_tag", "f_category", "source", "pan"} \cap df.columns # {})

ApplyRemoveDuplicates ==
    RuleStep("remove_duplicates", "remove_duplicates", "correct_count_overall", TRUE)

ApplyCorrectCountOverall ==
    RuleStep("correct_count_overall", "correct_count_overall", "report_zero_ratings", TRUE)

ApplyReportZeroRatings ==
    RuleStep("report_zero_ratings", "report_zero_ratings", "return_validations",
             ~matches(file_name, skip_zero_check))

\* the issues joined last first
join_reversed(iss) == [i \in 1..Len(iss) |-> iss[Len(iss) + 1 - i]]

\* "\n".join(issues), kept as the sequence of its lines
join(iss) == iss

\* if issues: df["validation_issues"] = "\n".join(issues); return df, issues
ReturnValidations ==
    /\ pc = "return_validations"
    /\ df' = IF issues # <<>>
             THEN [columns |-> df.columns \cup {"validation_issues"},
                   rows |-> MapRows(df.rows, LAMBDA r :
                                SetCol(r, "validation_issues", join(issues)))]
             ELSE df
    /\ log' = Append(log, Event("validated", file_name, "", Len(issues)))
    /\ pc' = "outcome"
    /\ UNCHANGED <<issues, idx, total_stats>>
    /\ UNCHANGED OtherVars

----------------------------------------------------------------------------
(* process_file *)

\* pd.read_csv(file_path) raises
ReadFail ==
    /\ pc = "read"
    /\ Except("read_csv failed")
    /\ UNCHANGED <<log>>
    /\ UNCHANGED OtherVars

\* pd.read_csv, the source inferred from the file name, the review_count fix
ReadCsv ==
    /\ pc = "read"
    /\ \E d \in Datasets :
         LET d1 == infer_source(d, file_name)
             n == fix_count(d1)
         IN  /\ df' = fix_count_overall(d1)
             /\ inferred_sources' =
                  IF needs_source(d)
                  THEN DictSet(inferred_sources, file_name, inferred_source(file_name))
                  ELSE inferred_sources
             /\ review_count_fixes' =
                  IF n > 0 THEN DictSet(review_count_fixes, file_name, n)
                  ELSE review_count_fixes
             /\ log' = log \o <<Event("read", file_name, "", Disagreement(d)),
                               RowsEvent(file_name, "input", Len(d.rows))>>
    /\ pc' = "skip_entire_file"
    /\ UNCHANGED <<db, up, twice, files_to_process, idx, rules, raising, issues,
                   total_stats, s3>>

Skipped ==
    /\ total_stats' = [total_stats EXCEPT !.skipped = Append(@, file_name)]
    /\ NextFile

\* if any(x in file_name.lower() for x in skip_entire_file): skipped
SkipEntireFile ==
    /\ pc = "skip_entire_file"
    /\ IF matches(file_name, skip_entire_file)
       THEN Skipped
       ELSE /\ pc' = "scraped_week"
            /\ UNCHANGED <<df, issues, idx, total_stats>>
    /\ UNCHANGED <<log>>
    /\ UNCHANGED OtherVars

\* the scraped_week column normalised; the file skipped when no row is of the expected week
CheckScrapedWeek ==
    /\ pc = "scraped_week"
    /\ IF "scraped_week" \in df.columns
       THEN IF week_mismatch(normalize_weeks(df))
            THEN Skipped
            ELSE /\ df' = normalize_weeks(df)
                 /\ pc' = "clean_product_id"
                 /\ UNCHANGED <<issues, idx, total_stats>>
       ELSE /\ pc' = "clean_product_id"
            /\ UNCHANGED <<df, issues, idx, total_stats>>
    /\ UNCHANGED <<log>>
    /\ UNCHANGED OtherVars

failed_name_plain(name) == <<"", name>>

\* f"FAILED_{file_name}"
failed_name(name) == <<"FAILED_", name>>

\* s3.put_object(Bucket, Key=f"{folder}{filename}", Body=csv of data)
upload_to_s3(data, filename, folder) ==
    LET key == <<folder>> \o filename
    IN  {o \in s3 : o.key # key} \cup {[key |-> key, body |-> data]}

after_failed_upload_fallthrough == "fallthrough"

\* the return of line 215
after_failed_upload == "return"

\* if issues: the dataset uploaded under the FAILED_ name, the file recorded failed
UploadFailed ==
    /\ pc = "outcome"
    /\ issues # <<>>
    /\ s3' = upload_to_s3(df, failed_name(file_name), week_folder)
    /\ total_stats' =
         [total_stats EXCEPT !.failed = Append(@, <<file_name, ListReason(issues)>>)]
    /\ IF after_failed_upload = "return"
       THEN NextFile
       ELSE /\ pc' = "upload"
            /\ UNCHANGED <<df, issues, idx>>
    /\ UNCHANGED <<db, up, twice, files_to_process, rules, raising,
                   inferred_sources, review_count_fixes, log>>

\* upload_to_s3(df, file_name, folder=week_folder)
Upload ==
    /\ \/ pc = "outcome" /\ issues = <<>>
       \/ pc = "upload"
    /\ s3' = upload_to_s3(df, <<"", file_name>>, week_folder)
    /\ pc' = "ratings_stage"
    /\ UNCHANGED <<db, up, twice, files_to_process, idx, rules, raising, df, issues,
                   total_stats, inferred_sources, review_count_fixes, log>>

\* s3.put_object raises in either upload
UploadFail ==
    /\ pc \in {"outcome", "upload"}
    /\ Except("upload failed")
    /\ UNCHANGED <<log>>
    /\ UNCHANGED OtherVars

\* df_missing: the rows whose five star counts are all zero or null
df_missing(d) == SelectSeq(d.rows, zero_star_mask)

\* every row taken for complete
df_valid_all(d) == d.rows

\* df_valid = df[~df.index.isin(df_missing.index)]
df_valid(d) == SelectSeq(d.rows, LAMBDA r : ~zero_star_mask(r))

\* the load into ratings_stage: every row of a skip_zero_check file, df_valid otherwise
LoadStage ==
    /\ pc = "ratings_stage"
    /\ LET all == matches(file_name, skip_zero_check)
           rows == IF all THEN df.rows ELSE df_valid(df)
       IN  IF ~all /\ ~(star_cols \subseteq df.columns)
           THEN /\ Except("KeyError")
                /\ UNCHANGED <<up, log>>
           ELSE IF all \/ rows # <<>>
           THEN /\ up' = upsert_data(rows, df.columns, "ratings_stage", file_name)
                /\ log' = log \o <<RowsEvent(file_name, "ratings_stage", Len(rows)),
                                  CallEvent(file_name, "ratings_stage")>>
                /\ pc' = "upsert_stage"
                /\ UNCHANGED <<df, issues, idx, total_stats>>
           ELSE /\ pc' = "ratings_missing"
                /\ UNCHANGED <<up, log, df, issues, idx, total_stats>>
    /\ UNCHANGED <<db, twice, files_to_process, rules, raising, s3,
                   inferred_sources, review_count_fixes>>

\* the load of the key columns of df_missing into ratings_missing
LoadMissing ==
    /\ pc = "ratings_missing"
    /\ LET rows == MapRows(df_missing(df), LAMBDA r : Restrict(r, unique_keys))
       IN  IF rows # <<>>
           THEN /\ up' = upsert_data(rows, unique_keys, "ratings_missing", file_name)
                /\ log' = log \o <<RowsEvent(file_name, "ratings_missing", Len(rows)),
                                  CallEvent(file_name, "ratings_missing")>>
                /\ pc' = "upsert_missing"
           ELSE /\ pc' = "passed"
                /\ UNCHANGED <<up, log>>
    /\ UNCHANGED <<db, twice, files_to_process, idx, rules, raising, df, issues,
                   total_stats, s3, inferred_sources, review_count_fixes>>

\* upsert_data returned to process_file
UpsertReturned ==
    /\ pc \in {"upsert_stage", "upsert_missing"}
    /\ up.status = "returned"
    /\ up' = NoCall
    /\ pc' = IF pc = "upsert_stage" /\ ~matches(file_name, skip_zero_check)
             THEN "ratings_missing" ELSE "passed"
    /\ UNCHANGED <<db, twice, files_to_process, idx, rules, raising, df, issues,
                   total_stats, s3, inferred_sources, review_count_fixes, log>>

\* upsert_data raised and process_file went on to line 235 as if it had returned
UpsertRaised_swallow ==
    /\ pc \in {"upsert_stage", "upsert_missing"}
    /\ up.status = "raised"
    /\ up' = NoCall
    /\ pc' = "passed"
    /\ UNCHANGED <<db, twice, files_to_process, idx, rules, raising, df, issues,
                   total_stats, s3, inferred_sources, review_count_fixes, log>>

\* upsert_data raised: the except clause of process_file
UpsertRaised ==
    /\ pc \in {"upsert_stage", "upsert_missing"}
    /\ up.status = "raised"
    /\ up' = NoCall
    /\ Except("upsert failed")
    /\ UNCHANGED <<db, twice, files_to_process, rules, raising, s3,
                   inferred_sources, review_count_fixes, log>>

\* total_stats['passed'].append(file_name)
Passed ==
    /\ pc = "passed"
    /\ total_stats' = [total_stats EXCEPT !.passed = Append(@, file_name)]
    /\ NextFile
    /\ UNCHANGED <<log>>
    /\ UNCHANGED OtherVars

----------------------------------------------------------------------------
(* main *)

Batches ==
    {b \in SeqsUpTo(FileNames, MaxFiles) :
        \A i, j \in 1..Len(b) : b[i] = b[j] => i = j}

AllButPc ==
    <<db, up, twice, files_to_process, idx, rules, raising, df, issues, total_stats,
      s3, inferred_sources, review_count_fixes, log>>

\* choice "2": view_uploaded_files() reads ratings_files
MainView ==
    /\ pc = "main"
    /\ pc' = "done"
    /\ UNCHANGED AllButPc

\* a choice other than "1" or "2", or a path that is no folder and no file
MainInvalid ==
    /\ pc = "main"
    /\ pc' = "done"
    /\ UNCHANGED AllButPc

\* choice "1": the week, the mode and the files to process
MainUpload ==
    /\ pc = "main"
    /\ \E b \in Batches : files_to_process' = b
    /\ pc' = "load_validation_functions"
    /\ UNCHANGED <<db, up, twice, idx, rules, raising, df, issues, total_stats,
                   s3, inferred_sources, review_count_fixes, log>>

\* load_validation_functions() returns False
LoadRulesFail ==
    /\ pc = "load_validation_functions"
    /\ pc' = "done"
    /\ UNCHANGED AllButPc

\* load_validation_functions() returns True; total_stats created
LoadRules ==
    /\ pc = "load_validation_functions"
    /\ \E bundle \in Bundles :
         /\ rules' = bundle
         /\ \E bad \in SUBSET MayRaise(bundle) : raising' = bad
    /\ total_stats' = [passed |-> <<>>, failed |-> <<>>, skipped |-> <<>>]
    /\ idx' = 1
    /\ pc' = "loop"
    /\ UNCHANGED <<db, up, twice, files_to_process, df, issues, s3,
                   inferred_sources, review_count_fixes, log>>

\* for file_path in files_to_process: process_file(...)
LoopNext ==
    /\ pc = "loop"
    /\ idx <= Len(files_to_process)
    /\ pc' = "read"
    /\ UNCHANGED AllButPc

\* the final summary
Summary ==
    /\ pc = "loop"
    /\ idx > Len(files_to_process)
    /\ pc' = "done"
    /\ UNCHANGED AllButPc

Init ==
    /\ pc = "main"
    /\ db = EmptyDb
    /\ up = NoCall
    /\ twice = [run |-> 0, first |-> {}, after |-> {}]
    /\ InitPipelineIdle

Next ==
    \/ MainView \/ MainInvalid \/ MainUpload \/ LoadRulesFail \/ LoadRules
    \/ LoopNext \/ Summary
    \/ ReadFail \/ ReadCsv \/ SkipEntireFile \/ CheckScrapedWeek
    \/ ApplyCleanProductId \/ ApplyStandardizeDate \/ ApplyValidateScrapedWeek
    \/ ApplyValidateRatingDependency \/ ApplyCleanText \/ ApplyRemoveDuplicates
    \/ ApplyCorrectCountOverall \/ ApplyReportZeroRatings \/ ReturnValidations
    \/ UploadFailed \/ Upload \/ UploadFail
    \/ LoadStage \/ LoadMissing \/ UpsertChunkCommit \/ UpsertChunkFail
    \/ UpsertReturned \/ UpsertRaised \/ Passed

Spec == Init /\ [][Next]_vars

----------------------------------------------------------------------------
(* Properties of the batch run, checked under Spec *)

InSeq(x, seq) == \E i \in 1..Len(seq) : seq[i] = x

IsPassed(f) == InSeq(f, total_stats.passed)
IsSkipped(f) == InSeq(f, total_stats.skipped)
IsFailed(f) == \E i \in 1..Len(total_stats.failed) : total_stats.failed[i][1] = f
FailedWith(f, reason) == InSeq(<<f, reason>>, total_stats.failed)
Finished(f) == IsPassed(f) \/ IsSkipped(f) \/ IsFailed(f)

\* the positions of the log where event e of file f was recorded
Events(f, e) == {i \in 1..Len(log) : log[i].ev = e /\ log[i].file = f}

Written(f, prefix) == \E o \in s3 : o.key = <<week_folder, prefix, f>>

FatalWeekReason == StrReason("validate_scraped_week failed")

\* C6 as claimed: no row of a file whose outcome is failed, for any reason, has been
\* loaded into ratings_stage or ratings_missing.
C6_NoRowsOfFailedFile ==
    \A i \in 1..Len(total_stats.failed) :
        Events(total_stats.failed[i][1], "commit") = {}

\* C6 amended: no row of a file that failed for a reason other than a store failure
\* inside upsert_data has been loaded, and the tables hold rows only once a chunk
\* was committed.
C6_NoRowsUnlessUpsertFailed ==
    /\ \A i \in 1..Len(total_stats.failed) :
          total_stats.failed[i][2] # StrReason("upsert failed")
              => Events(total_stats.failed[i][1], "commit") = {}
    /\ (\A i \in 1..Len(log) : log[i].ev # "commit")
          => db.ratings_stage = {} /\ db.ratings_missing = {}

C6_Witness ==
    /\ pc = "done"
    /\ \E i, j \in 1..Len(total_stats.failed) :
          /\ total_stats.failed[i][2].type = "list"
          /\ total_stats.failed[j][2] = StrReason("upload failed")
    /\ db.ratings_stage = {}

\* C7 as claimed, read in its most favourable way (validate_scraped_week loaded, the
\* file not on skip_entire_file): every file whose scraped_week column disagrees
\* with the expected week, in all rows or in some, ends failed with the fatal
\* period-check reason and is never passed to upsert_data.
C7_MismatchAlwaysFailed ==
    \A f \in FileNames :
        (/\ Finished(f)
         /\ "validate_scraped_week" \in rules
         /\ ~matches(f, skip_entire_file)
         /\ \E i \in Events(f, "read") : log[i].at \in {"some", "all"})
            => FailedWith(f, FatalWeekReason) /\ Events(f, "call") = {}

\* C7 amended: with validate_scraped_week loaded, a file whose scraped_week column
\* disagrees with the expected week is never passed to upsert_data; when no row is
\* of the expected week it ends skipped, not failed; when only some rows disagree it
\* ends failed with the fatal period-check reason (a skip_entire_file file is
\* skipped either way).
C7_MismatchNeverUpserted ==
    \A f \in FileNames :
        (/\ Finished(f)
         /\ "validate_scraped_week" \in rules
         /\ \E i \in Events(f, "read") : log[i].at \in {"some", "all"})
            => /\ Events(f, "call") = {}
               /\ ~IsPassed(f)
               /\ ~matches(f, skip_entire_file) =>
                    \A i \in Events(f, "read") :
                        /\ log[i].at = "all" => IsSkipped(f) /\ ~IsFailed(f)
                        /\ log[i].at = "some" =>
                             FailedWith(f, FatalWeekReason) /\ ~IsSkipped(f)

C7_Witness ==
    /\ pc = "done"
    /\ "validate_scraped_week" \in rules
    /\ \E f, g \in FileNames :
          /\ \E i \in Events(f, "read") : log[i].at = "some"
          /\ FailedWith(f, FatalWeekReason)
          /\ \E i \in Events(g, "read") : log[i].at = "all"
          /\ IsSkipped(g) /\ ~matches(g, skip_entire_file)

LaterRules == {"clean_text", "remove_duplicates", "correct_count_overall",
               "report_zero_ratings"}

DependencyRaised(f) ==
    {i \in Events(f, "rule") :
        log[i].table = "validate_rating_dependency" /\ log[i].at = "raised"}

ReturnedIssues(f) == {i \in Events(f, "validated") : log[i].at > 0}

\* C9: whenever apply_validations returns a non-empty issue list, the dataset has a
\* validation_issues column holding the joined issues, the file is written to the
\* object store under the FAILED_ name only, it ends failed, and upsert_data is
\* never called for it.
C9_IssuesFailFile ==
    /\ (pc = "outcome" /\ issues # <<>>)
          => /\ "validation_issues" \in df.columns
             /\ \A i \in 1..Len(df.rows) : df.rows[i].validation_issues = join(issues)
    /\ \A f \in FileNames :
          ReturnedIssues(f) # {}
             => /\ ~Written(f, "")
                /\ Events(f, "call") = {}
                /\ Finished(f) =>
                     /\ IsFailed(f) /\ ~IsPassed(f) /\ ~IsSkipped(f)
                     /\ \A k \in 1..Len(total_stats.failed) :
                           (/\ total_stats.failed[k][1] = f
                            /\ total_stats.failed[k][2].type = "list")
                              => \E o \in s3 :
                                   /\ o.key = <<week_folder, "FAILED_", f>>
                                   /\ "validation_issues" \in o.body.columns

C9_Witness ==
    /\ pc = "done"
    /\ \E f \in FileNames :
          /\ ReturnedIssues(f) # {}
          /\ \E k \in 1..Len(total_stats.failed) :
                /\ total_stats.failed[k][1] = f
                /\ total_stats.failed[k][2].type = "list"
                /\ Len(total_stats.failed[k][2].val) > 1
          /\ \E o \in s3 :
                /\ o.key = <<week_folder, "FAILED_", f>>
                /\ Len(o.body.rows) > 1

\* C10: every file whose lower-cased name contains an entry of skip_entire_file
\* ends skipped, never failed or passed, with nothing written to the object store
\* and no row loaded.
C10_SkipEntireFile ==
    \A f \in FileNames :
        (Finished(f) /\ matches(f, skip_entire_file))
            => /\ IsSkipped(f) /\ ~IsFailed(f) /\ ~IsPassed(f)
               /\ ~Written(f, "") /\ ~Written(f, "FAILED_")
               /\ Events(f, "commit") = {}

\* the file names whose lower-cased form contains an entry of the list of line 31
OnSkipZeroList(f) ==
    \E x \in {"fancode_ratings", "nathabit_ratings"} : contains(lower(f), x)

\* C11: for a file whose lower-cased name contains an entry of skip_zero_check and
\* that passed validation, upsert_data is called with every row of the dataset for
\* ratings_stage and, as the log shows whenever process_file has returned, never
\* for ratings_missing; once the call returned, every row,
\* the rows with five zero or null star counts included, is in ratings_stage (for
\* a key the file repeats, the last row of that key).
C11_SkipZeroAllToStage ==
    /\ \A f \in FileNames :
          (pc \in {"loop", "done"} /\ OnSkipZeroList(f))
             => /\ \A i \in Events(f, "call") \cup Events(f, "commit") :
                      log[i].table = "ratings_stage"
                /\ IsPassed(f) => Events(f, "call") # {}
    /\ (pc = "upsert_stage" /\ OnSkipZeroList(file_name))
          => up.table = "ratings_stage" /\ up.rows = df.rows
    /\ (pc = "passed" /\ OnSkipZeroList(file_name))
          => \A i \in 1..Len(df.rows) : LastOf(df.rows, i) \in db.ratings_stage

C11_Witness ==
    /\ pc = "passed"
    /\ OnSkipZeroList(file_name)
    /\ \E i, j \in 1..Len(df.rows) :
          /\ zero_star_mask(df.rows[i]) /\ df.rows[i] \in db.ratings_stage
          /\ ~zero_star_mask(df.rows[j]) /\ df.rows[j] \in db.ratings_stage
    /\ \A t \in db.ratings_missing : t.product_id # "p2"

ValidatingPcs ==
    {"clean_product_id", "standardize_date", "validate_scraped_week",
     "validate_rating_dependency", "clean_text", "remove_duplicates",
     "correct_count_overall", "report_zero_ratings", "return_validations",
     "outcome", "upload"}

PartitionedPcs == {"ratings_stage", "upsert_stage", "ratings_missing", "upsert_missing"}

\* the status of file f: its list of total_stats once recorded; for the file in
\* process_file, pending up to the two skip tests, validating from the call of
\* apply_validations to the upload, partitioned from line 218 to the return of the
\* last upsert_data call, upserted at line 235
Status(f) ==
    IF IsPassed(f) THEN "passed"
    ELSE IF IsFailed(f) THEN "failed"
    ELSE IF IsSkipped(f) THEN "skipped"
    ELSE IF idx \in 1..Len(files_to_process) /\ files_to_process[idx] = f
         THEN IF pc \in ValidatingPcs THEN "validating"
              ELSE IF pc \in PartitionedPcs THEN "partitioned"
              ELSE IF pc = "passed" THEN "upserted"
              ELSE "pending"
    ELSE "pending"

Occurrences(f) ==
    Cardinality({i \in 1..Len(total_stats.passed) : total_stats.passed[i] = f})
    + Cardinality({i \in 1..Len(total_stats.failed) : total_stats.failed[i][1] = f})
    + Cardinality({i \in 1..Len(total_stats.skipped) : total_stats.skipped[i] = f})

\* the files process_file has returned for
Processed ==
    {files_to_process[i] : i \in {j \in 1..Len(files_to_process) : j < idx}}

RecordedOnce ==
    \A f \in FileNames :
        /\ f \in Processed => Occurrences(f) = 1
        /\ f \notin Processed => Occurrences(f) = 0

\* a step of the run moves the status of every file along the moves allowed, leaves
\* an upsert_data call without failing the file only when the call returned, and
\* records passed only from upserted, with no issues, after a validation that
\* returned none and with no upsert_data call open
StatusStep(allowed) ==
    \A f \in FileNames :
        /\ Status(f)' # Status(f) => <<Status(f), Status(f)'>> \in allowed
        /\ (/\ Status(f) = "partitioned"
            /\ pc \in {"upsert_stage", "upsert_missing"}
            /\ pc' # pc
            /\ Status(f)' # "failed") => up.status = "returned"
        /\ (Status(f)' = "passed" /\ Status(f) # "passed")
              => /\ issues = <<>>
                 /\ up = NoCall
                 /\ \E i \in Events(f, "validated") : log[i].at = 0

ClaimedMoves ==
    {<<"pending", "skipped">>, <<"pending", "validating">>, <<"validating", "failed">>,
     <<"validating", "partitioned">>, <<"partitioned", "upserted">>,
     <<"upserted", "passed">>}

\* C12 as claimed: the status of each file moves only along pending -> skipped,
\* pending -> validating, validating -> failed, validating -> partitioned,
\* partitioned -> upserted, upserted -> passed; each file is recorded in exactly one
\* of the three lists exactly once, and passed only after a validation without
\* issues and the return of every upsert_data call.
C12_StateMachine == []RecordedOnce /\ [][StatusStep(ClaimedMoves)]_vars

\* C12 amended: as claimed, with two more moves: pending -> failed (the read, the
\* source inference or the review_count fix raises) and partitioned -> failed
\* (upsert_data raises, or the star columns are missing at the split).
C12_StateMachineWithFailures ==
    /\ []RecordedOnce
    /\ [][StatusStep(ClaimedMoves \cup {<<"pending", "failed">>,
                                         <<"partitioned", "failed">>})]_vars

C12_Witness ==
    /\ pc = "done"
    /\ \E f, g \in FileNames :
          /\ IsPassed(f) /\ Events(f, "commit") # {}
          /\ FailedWith(g, StrReason("upsert failed")) /\ Events(g, "call") # {}

\* process_file is not running: before the first file, between two files, after
\* the last
Returned == pc \in {"loop", "done"}

\* process_file has just returned for a file: the file
JustReturned == Returned /\ idx > 1
LastFile == files_to_process[idx - 1]

\* the position of file f in the batch
Pos(f) == CHOOSE k \in 1..Len(files_to_process) : files_to_process[k] = f

ExceptionReasons ==
    {StrReason(m) : m \in {"read_csv failed", "validate_scraped_week failed",
                            "upload failed", "KeyError", "upsert failed"}}

\* C13: an exception raised while one file is processed (read, validation, upload
\* or upsert) leaves exactly one failed record, for that file; the files are taken
\* one at a time in input order, each one once, and the loop ends only after the
\* last file, whatever the outcomes of the earlier ones. The order of the events
\* and the records of the files are looked at whenever process_file has returned.
C13_ErrorContainment ==
    /\ Returned =>
          \A i \in 2..Len(log) :
              log[i - 1].file = log[i].file \/ Pos(log[i - 1].file) < Pos(log[i].file)
    /\ Len(log) > 0 => Pos(log[Len(log)].file) <= idx
    /\ idx > 0 =>
          /\ Returned =>
                \A k \in 1..Len(files_to_process) :
                    /\ k < idx => Occurrences(files_to_process[k]) = 1
                    /\ k >= idx => Occurrences(files_to_process[k]) = 0
          /\ Len(total_stats.passed) + Len(total_stats.failed)
                + Len(total_stats.skipped) = idx - 1
          /\ pc = "done" => idx = Len(files_to_process) + 1
    /\ Returned => \A k \in 1..Len(total_stats.failed) :
          total_stats.failed[k][2].type = "str"
             => /\ total_stats.failed[k][2] \in ExceptionReasons
                /\ ~IsPassed(total_stats.failed[k][1])
                /\ ~IsSkipped(total_stats.failed[k][1])

C13_Witness ==
    /\ pc = "done"
    /\ Len(files_to_process) = 2
    /\ FailedWith(files_to_process[1], StrReason("upsert failed"))
    /\ IsPassed(files_to_process[2])
    /\ Events(files_to_process[2], "commit") # {}

NothingDone ==
    /\ total_stats = [passed |-> <<>>, failed |-> <<>>, skipped |-> <<>>]
    /\ s3 = {}
    /\ db = EmptyDb
    /\ log = <<>>

\* C14: the bundle is fetched before any file is processed, and a fetch that fails,
\* by a network or decode failure or because the bundle is empty (it binds no
\* rule), ends the run with no file processed, nothing written to the object store
\* and no row loaded.
C14_RuleLoadGate ==
    /\ pc \in {"main", "load_validation_functions"} => idx = 0 /\ NothingDone
    /\ idx = 0 => NothingDone
    /\ (pc \notin {"main", "load_validation_functions"} /\ rules = {})
          => pc = "done" /\ idx = 0 /\ NothingDone

\* C15: at the end of a run, ratings_files holds a (file_name, real_time) record for
\* every file recorded passed.
C15_AuditLog ==
    pc = "done" =>
        \A f \in FileNames :
            IsPassed(f) => \E rec \in db.ratings_files : rec.file_name = f

\* the rows events of file f, in log order
RowsSeq(f) == SelectSeq(log, LAMBDA e : e.ev = "rows" /\ e.file = f)

\* the number of rows recorded under `what` in the rows events rs, 0 when none was
Tally(rs, what) ==
    LET at == {k \in 1..Len(rs) : rs[k].table = what}
    IN  IF at = {} THEN 0 ELSE rs[CHOOSE k \in at : TRUE].at

Rows(f, what) == Tally(RowsSeq(f), what)

WasRead(f) == \E i \in Events(f, "rows") : log[i].table = "input"

\* the rows handed to the two loads and the rows removed as duplicates
Accounted(rs) ==
    Tally(rs, "ratings_stage") + Tally(rs, "ratings_missing") + Tally(rs, "removed")

\* rejected by a rule the specification calls fatal: the week rule raised, or the
\* dependency rule did
RejectedByFatalRule(f) ==
    \/ FailedWith(f, FatalWeekReason)
    \/ DependencyRaised(f) # {}

NonFatalRules ==
    {"clean_product_id", "standardize_date", "clean_text", "remove_duplicates",
     "correct_count_overall", "report_zero_ratings"}

\* the try blocks of apply_validations in their order in the source
RuleOrder ==
    <<"clean_product_id", "standardize_date", "validate_scraped_week",
      "validate_rating_dependency", "clean_text", "remove_duplicates",
      "correct_count_overall", "report_zero_ratings">>

RuleIndex ==
    [rule \in Range(RuleOrder) |-> CHOOSE k \in 1..Len(RuleOrder) : RuleOrder[k] = rule]

OrderOf(rule) == RuleIndex[rule]

\* the rules whose try block comes after the one of `rule`
RulesAfter ==
    [rule \in Range(RuleOrder) |->
        {r \in Range(RuleOrder) : RuleIndex[r] > RuleIndex[rule]}]

\* the rule events of file f, in log order
RuleSeq(f) == SelectSeq(log, LAMBDA e : e.ev = "rule" /\ e.file = f)

\* the rules later than `rule` that its raise must not keep from running for file
\* f: those bound in the bundle, report_zero_ratings only for a file off
\* skip_zero_check
LaterBound(f, rule) ==
    {r \in RulesAfter[rule] \cap rules :
        r = "report_zero_ratings" => ~OnSkipZeroList(f)}

\* rule r has an event after position k of the rule events rs
RanAfter(rs, k, r) == \E m \in (k + 1)..Len(rs) : rs[m].table = r

\* the positions of rs where a non-fatal rule raised
NonFatalRaised(rs) ==
    {k \in 1..Len(rs) : rs[k].at = "raised" /\ rs[k].table \in NonFatalRules}

\* process_file is running for file_name
InFile == idx \in 1..Len(files_to_process)

InValidation == InFile /\ pc \in ValidatingPcs

\* when apply_validations has returned, every raise of a rule for the file has left
\* exactly one issue, in the order of the raises, and the issue of a non-fatal rule
\* is form(rule); an issue is kept as its text before ": <error>"
OneIssuePerRaise(form(_)) ==
    (InFile /\ pc = "outcome") =>
        LET raised == SelectSeq(RuleSeq(file_name), LAMBDA e : e.at = "raised")
        IN  /\ Len(issues) = Len(raised)
            /\ \A k \in 1..Len(raised) :
                  raised[k].table \in NonFatalRules => issues[k] = form(raised[k].table)

ClaimedForm(rule) == rule
FailedForm(rule) == rule \o " failed"

\* C17 as claimed: a raise of a non-fatal rule is recorded as exactly one issue of
\* the form "<rule>: <error>", and every later rule is still run for the file
\* (looked at when process_file has just returned for the file).
C17_NonFatalIsolation ==
    /\ OneIssuePerRaise(ClaimedForm)
    /\ JustReturned =>
          LET f == LastFile
              rs == RuleSeq(f)
          IN  \A k \in NonFatalRaised(rs) :
                Finished(f) => \A r \in LaterBound(f, rs[k].table) : RanAfter(rs, k, r)

\* C17 amended: a raise of a non-fatal rule is recorded as exactly one issue of the
\* form "<rule> failed: <error>", and every later rule bound in the bundle is still
\* run for the file, unless validate_scraped_week raises after it: that raise ends
\* apply_validations, the later rules are not run and the file is recorded failed
\* with the week reason, the issues collected so far dropped (looked at when
\* process_file has just returned for the file).
C17_NonFatalRecorded ==
    /\ OneIssuePerRaise(FailedForm)
    /\ JustReturned =>
          LET f == LastFile
              rs == RuleSeq(f)
              validated == \E i \in 1..Len(log) :
                              log[i].ev = "validated" /\ log[i].file = f
          IN  \A k \in NonFatalRaised(rs) :
                /\ validated
                      => \A r \in LaterBound(f, rs[k].table) : RanAfter(rs, k, r)
                /\ (Finished(f) /\ ~validated)
                      => /\ FailedWith(f, FatalWeekReason)
                         /\ RanAfter(rs, k, "validate_scraped_week")

C17_Witness ==
    /\ pc = "done"
    /\ \E f, g \in FileNames :
          /\ \E k \in NonFatalRaised(RuleSeq(f)) :
                /\ RuleSeq(f)[k].table = "clean_product_id"
                /\ RanAfter(RuleSeq(f), k, "report_zero_ratings")
          /\ FailedWith(f, ListReason(<<"clean_product_id failed", "clean_text failed">>))
          /\ NonFatalRaised(RuleSeq(g)) # {}
          /\ FailedWith(g, FatalWeekReason)

FourIssues ==
    <<"clean_product_id failed", "clean_text failed", "remove_duplicates failed",
      "correct_count_overall failed">>

\* the issues of iss that are among the four, in the order of iss
OfTheFour(iss) == SelectSeq(iss, LAMBDA t : t \in Range(FourIssues))

\* C18: the rules of apply_validations run in the order clean_product_id,
\* standardize_date, validate_scraped_week, validate_rating_dependency, clean_text,
\* remove_duplicates, correct_count_overall, report_zero_ratings, and when
\* clean_product_id, clean_text, remove_duplicates and correct_count_overall all
\* raise on a dataset, their issues stand in that order in the issues returned and
\* in the joined validation_issues text.
C18_IssueOrder ==
    /\ (Returned \/ pc = "outcome") => \A f \in FileNames :
          LET rs == RuleSeq(f)
          IN  \A k \in 2..Len(rs) : OrderOf(rs[k - 1].table) < OrderOf(rs[k].table)
    /\ ({"clean_product_id", "clean_text", "remove_duplicates",
          "correct_count_overall"} \subseteq raising)
          => /\ \A k \in 1..Len(total_stats.failed) :
                   total_stats.failed[k][2].type = "list"
                      => OfTheFour(total_stats.failed[k][2].val) = FourIssues
             /\ \A o \in s3 : \A n \in 1..Len(o.body.rows) :
                   "validation_issues" \in o.body.columns
                      => OfTheFour(o.body.rows[n].validation_issues) = FourIssues

C18_Witness ==
    /\ pc = "done"
    /\ \E f \in FileNames :
          /\ FailedWith(f, ListReason(<<"clean_product_id failed",
                                        "rating dependency violated",
                                        "clean_text failed", "remove_duplicates failed",
                                        "correct_count_overall failed">>))
          /\ \E o \in s3 :
                /\ o.key = <<week_folder, "FAILED_", f>>
                /\ Len(o.body.rows) > 0
                /\ OfTheFour(o.body.rows[1].validation_issues) = FourIssues

\* a row is incomplete when each of its five star-bucket counts is zero or null
Incomplete(r) ==
    \A c \in {"count_5star", "count_4star", "count_3star", "count_2star", "count_1star"} :
        r[c] \in {0, NULL}

KeyColumns(r) == [c \in {"source", "product_id", "scraped_week", "scraped_year"} |-> r[c]]

CompleteRows(rows) == SelectSeq(rows, LAMBDA r : ~Incomplete(r))
IncompleteRows(rows) == SelectSeq(rows, Incomplete)

\* C19: for a file off skip_zero_check that passed validation, the rows handed to
\* the load of ratings_stage are exactly the rows with a star count that is neither
\* zero nor null, the rows handed to the load of ratings_missing are exactly the key
\* columns of the rows whose five star counts are all zero or null, so that the two
\* row sets are disjoint and cover the dataset; once both loads returned, every
\* complete row is in ratings_stage (for a repeated key the last one) and the key of
\* every incomplete row is in ratings_missing, which holds key columns only.
C19_CompletenessPartition ==
    /\ (InFile /\ pc = "upsert_stage" /\ ~OnSkipZeroList(file_name))
          => /\ up.table = "ratings_stage"
             /\ up.rows = CompleteRows(df.rows)
    /\ (InFile /\ pc = "upsert_missing")
          => /\ ~OnSkipZeroList(file_name)
             /\ up.table = "ratings_missing"
             /\ up.columns = {"source", "product_id", "scraped_week", "scraped_year"}
             /\ LET inc == IncompleteRows(df.rows)
                IN  up.rows = [i \in 1..Len(inc) |-> KeyColumns(inc[i])]
    /\ (pc = "passed" /\ ~OnSkipZeroList(file_name))
          => LET com == CompleteRows(df.rows)
                 inc == IncompleteRows(df.rows)
             IN  /\ Rows(file_name, "ratings_stage") = Len(com)
                 /\ Rows(file_name, "ratings_missing") = Len(inc)
                 /\ Len(com) + Len(inc) = Len(df.rows)
                 /\ \A i \in 1..Len(com) : LastOf(com, i) \in db.ratings_stage
                 /\ \A i \in 1..Len(inc) : KeyColumns(inc[i]) \in db.ratings_missing
    /\ \A t \in db.ratings_missing :
          DOMAIN t = {"source", "product_id", "scraped_week", "scraped_year"}

C19_Witness ==
    /\ pc = "passed"
    /\ ~OnSkipZeroList(file_name)
    /\ \E i, j \in 1..Len(df.rows) :
          /\ Incomplete(df.rows[i]) /\ ~Incomplete(df.rows[j])
          /\ Key(df.rows[i]) = Key(df.rows[j])
          /\ df.rows[j] \in db.ratings_stage
          /\ KeyColumns(df.rows[i]) \in db.ratings_missing
    /\ \E i \in 1..Len(df.rows) : df.rows[i].count_5star = NULL

\* a row the auto-fix is for: incomplete, with a positive review_count
ShouldFix(r) == Incomplete(r) /\ r.review_count # NULL /\ r.review_count > 0

Fixed(d) == {i \in 1..Len(d.rows) : ShouldFix(d.rows[i])}

\* the datasets read_csv can have returned for file f, by the events of the read
ReadAs(f) ==
    LET n == Rows(f, "input")
        dis == {log[i].at : i \in Events(f, "read")}
    IN  {d \in Datasets : Len(d.rows) = n /\ Disagreement(d) \in dis}

AuditEntries(f) == {e \in review_count_fixes : e[1] = f}

\* C20: when a file has been read and validation has not begun, every row whose
\* five star counts are all zero or null and whose review_count is positive has
\* its count_overall equal to its review_count, every other row has the
\* count_overall it was read with, no other column of the file is changed, and the
\* entry of the file in review_count_fixes is the number of rows fixed (no entry
\* when no row was).
C20_ReviewCountFix ==
    /\ (InFile /\ pc = "skip_entire_file")
          => \A d \in ReadAs(file_name) :
               /\ Len(df.rows) = Len(d.rows)
               /\ \A i \in 1..Len(d.rows) :
                     /\ df.rows[i].count_overall =
                           IF ShouldFix(d.rows[i]) THEN d.rows[i].review_count
                           ELSE d.rows[i].count_overall
                     /\ \A c \in d.columns \ {"count_overall"} :
                           df.rows[i][c] = d.rows[i][c]
               /\ AuditEntries(file_name) =
                     IF Fixed(d) = {} THEN {}
                     ELSE {<<file_name, Cardinality(Fixed(d))>>}
    /\ (InFile /\ pc = "skip_entire_file") => Cardinality(ReadAs(file_name)) = 1
    /\ \A e \in review_count_fixes : e[2] > 0 /\ Pos(e[1]) <= idx

C20_Witness ==
    /\ pc = "skip_entire_file"
    /\ Len(df.rows) = 1
    /\ df.rows[1].review_count = 37
    /\ df.rows[1].count_overall = 37
    /\ Incomplete(df.rows[1])
    /\ AuditEntries(file_name) = {<<file_name, 1>>}

====
